---- MODULE Spec2Model ----
(***************************************************************************)
(* Model of src/yandex_gpt_bot.py: the cloud-function handler that sends a *)
(* request text to the completion API, extracts and parses the JSON reply, *)
(* creates one YouGile task per task entry and renders a report.           *)
(*                                                                         *)
(* A text is a sequence of one-character strings.  A JSON value is a       *)
(* tagged record: obj (a function from keys to values), arr, num, str.     *)
(***************************************************************************)
EXTENDS Integers, Sequences, FiniteSets, TLC

(* ------------------------------ bounds --------------------------------- *)
\* most epics in a generated model reply
MaxEpics == 2
\* most task entries, over all its epics, in a generated model reply
MaxTasks == 3
\* handler invocations served by one process
MaxInvocations == 2
\* most lines in a text handed to the extractor on its own
MaxLines == 3
\* most overloaded members in a payload handed to the sprint renderer on its own
MaxMembers == 2

(* ------------------------- program constants --------------------------- *)
\* gpt_response[:500]
RAW_RESPONSE_LIMIT == 500

None == [t |-> "None"]

(* ------------------------------ texts ---------------------------------- *)
Min(S) == CHOOSE x \in S : \A y \in S : x <= y

\* s[:n]
Prefix(s, n) == SubSeq(s, 1, IF n < Len(s) THEN n ELSE Len(s))

IsSpace(c) == c \in {" ", "\n", "\t", "\r"}

RECURSIVE lstrip(_)
\* str.lstrip()
lstrip(s) == IF Len(s) > 0 /\ IsSpace(s[1]) THEN lstrip(Tail(s)) ELSE s

RECURSIVE rstrip(_)
\* str.rstrip()
rstrip(s) ==
    IF Len(s) > 0 /\ IsSpace(s[Len(s)]) THEN rstrip(SubSeq(s, 1, Len(s) - 1)) ELSE s

\* str.strip()
strip(s) == rstrip(lstrip(s))

\* str.split('\n'): always at least one line
split(s) ==
    LET nl == {i \in 1..Len(s) : s[i] = "\n"}
        pos(k) == IF k = 0 THEN 0
                  ELSE IF k = Cardinality(nl) + 1 THEN Len(s) + 1
                  ELSE CHOOSE p \in nl : Cardinality({q \in nl : q < p}) = k - 1
    IN  [k \in 1..(Cardinality(nl) + 1) |-> SubSeq(s, pos(k - 1) + 1, pos(k) - 1)]

RECURSIVE join(_)
\* '\n'.join(lines)
join(lines) ==
    IF Len(lines) = 0 THEN <<>>
    ELSE IF Len(lines) = 1 THEN lines[1]
    ELSE lines[1] \o <<"\n">> \o join(Tail(lines))

\* str.startswith(p)
startswith(s, p) == Len(s) >= Len(p) /\ SubSeq(s, 1, Len(p)) = p

\* the backtick character
BACKTICK == "BT"

FENCE == <<BACKTICK, BACKTICK, BACKTICK>>

\* line[:line.find('//')] when '//' in line
strip_comment(line) ==
    LET at == {i \in 1..(Len(line) - 1) : line[i] = "/" /\ line[i + 1] = "/"}
    IN  IF at = {} THEN line ELSE SubSeq(line, 1, Min(at) - 1)

\* does the text p occur in the text s
Contains(s, p) == \E i \in 1..(Len(s) - Len(p) + 1) : SubSeq(s, i, i + Len(p) - 1) = p

\* extract_json_from_markdown dropping a last line that contains the fence
\* marker anywhere, instead of one that is the marker
extract_json_from_markdown_LastContains(text) ==
    LET lines0 == split(strip(text))
        lines1 == IF Len(lines0) > 0 /\ startswith(strip(lines0[1]), FENCE)
                  THEN Tail(lines0) ELSE lines0
        lines2 == IF Len(lines1) > 0 /\ Contains(lines1[Len(lines1)], FENCE)
                  THEN SubSeq(lines1, 1, Len(lines1) - 1) ELSE lines1
        relined == split(join(lines2))
        cleaned_lines == [k \in 1..Len(relined) |-> strip_comment(relined[k])]
    IN  strip(join(cleaned_lines))

extract_json_from_markdown(text) ==
    LET lines0 == split(strip(text))
        lines1 == IF Len(lines0) > 0 /\ startswith(strip(lines0[1]), FENCE)
                  THEN Tail(lines0) ELSE lines0
        lines2 == IF Len(lines1) > 0 /\ strip(lines1[Len(lines1)]) = FENCE
                  THEN SubSeq(lines1, 1, Len(lines1) - 1) ELSE lines1
        relined == split(join(lines2))
        cleaned_lines == [k \in 1..Len(relined) |-> strip_comment(relined[k])]
    IN  strip(join(cleaned_lines))

(* --------------------------- JSON values ------------------------------- *)
Obj(f) == [t |-> "obj", f |-> f]
Arr(items) == [t |-> "arr", items |-> items]
Num(n) == [t |-> "num", n |-> n]
Str(s) == [t |-> "str", s |-> s]
\* a number with a fractional part, held in thousandths
Dec(milli) == [t |-> "dec", milli |-> milli]

IsDict(v) == v.t = "obj"

\* dict.get(key, default)
Get(d, key, default) == IF key \in DOMAIN d.f THEN d.f[key] ELSE default

EmptyMap == [k \in {} |-> None]

Digit(n) == CASE n = 0 -> "0" [] n = 1 -> "1" [] n = 2 -> "2" [] n = 3 -> "3"
              [] n = 4 -> "4" [] n = 5 -> "5" [] n = 6 -> "6" [] n = 7 -> "7"
              [] n = 8 -> "8" [] n = 9 -> "9"

NumText(n) == IF n < 10 THEN <<Digit(n)>> ELSE <<Digit(n \div 10), Digit(n % 10)>>

KeyText(k) ==
    CASE k = "epics" -> <<"e", "p", "i", "c", "s">>
      [] k = "tasks" -> <<"t", "a", "s", "k", "s">>
      [] k = "task_id" -> <<"t", "a", "s", "k", "_", "i", "d">>
      [] k = "title" -> <<"t", "i", "t", "l", "e">>

KeyOrder == <<"epics", "tasks", "task_id", "title">>

RECURSIVE JsonText(_)
RECURSIVE JsonItems(_)
RECURSIVE JsonMembers(_, _)
\* the text of a JSON document, as the completion API writes it
JsonText(v) ==
    CASE v.t = "num" -> NumText(v.n)
      [] v.t = "str" -> <<"\"">> \o v.s \o <<"\"">>
      [] v.t = "arr" -> <<"[">> \o JsonItems(v.items) \o <<"]">>
      [] v.t = "obj" -> <<"{">> \o JsonMembers(v.f, 1) \o <<"}">>

JsonItems(items) ==
    IF Len(items) = 0 THEN <<>>
    ELSE IF Len(items) = 1 THEN JsonText(items[1])
    ELSE JsonText(items[1]) \o <<",">> \o JsonItems(Tail(items))

JsonMembers(f, i) ==
    IF i > Len(KeyOrder) THEN <<>>
    ELSE IF KeyOrder[i] \notin DOMAIN f THEN JsonMembers(f, i + 1)
    ELSE LET rest == JsonMembers(f, i + 1)
         IN  <<"\"">> \o KeyText(KeyOrder[i]) \o <<"\"", ":">> \o JsonText(f[KeyOrder[i]])
             \o (IF rest = <<>> THEN <<>> ELSE <<",">> \o rest)

Epics(parsed) == Get(parsed, "epics", Arr(<<>>)).items

TasksOf(epic) == Get(epic, "tasks", Arr(<<>>)).items

(* ------------------- replies of the completion API --------------------- *)
\* the task entry at position t of epic e; every second entry has no title
TaskEntry(e, t) ==
    IF t % 2 = 1
    THEN Obj([task_id |-> Num(10 * e + t), title |-> Str(<<"a">>)])
    ELSE Obj([task_id |-> Num(10 * e + t)])

\* an epic with n task entries; n = -1 is an epic without the key "tasks"
Epic(e, n) ==
    IF n < 0 THEN Obj(EmptyMap)
    ELSE Obj([tasks |-> Arr([t \in 1..n |-> TaskEntry(e, t)])])

EpicShapes == (-1)..MaxTasks

RECURSIVE TaskCount(_)
\* the task entries of a sequence of epic shapes
TaskCount(sh) ==
    IF Len(sh) = 0 THEN 0
    ELSE (IF sh[1] < 0 THEN 0 ELSE sh[1]) + TaskCount(Tail(sh))

DocShapes ==
    {sh \in UNION {[1..n -> EpicShapes] : n \in 0..MaxEpics} : TaskCount(sh) <= MaxTasks}

\* the JSON documents the completion API may answer with
Docs ==
    {Obj([epics |-> Arr([e \in 1..Len(sh) |-> Epic(e, sh[e])])]) : sh \in DocShapes}
    \cup {Obj(EmptyMap), Arr(<<>>), Num(1)}

\* the text of every document of Docs
DocText == [d \in Docs |-> JsonText(d)]

Pad(n) == [i \in 1..n |-> "x"]

Fenced(body) ==
    FENCE \o <<"j", "s", "o", "n", "\n">> \o body \o <<"\n">> \o FENCE

Commented(body) == body \o <<" ", "/", "/", " ", "c">>

\* replies that are JSON once the fencing and the comments are removed
JsonReplies ==
    {DocText[d] : d \in Docs}
    \cup {Fenced(DocText[d]) : d \in {x \in Docs : IsDict(x) /\ Len(Epics(x)) = 1}}
    \cup {Commented(JsonText(Obj(EmptyMap)))}

\* replies that are not JSON: empty, plain words, a value cut at "//",
\* and words around the length RAW_RESPONSE_LIMIT
OtherReplies ==
    {<<>>, <<"x">>, <<"{", "\"", ":", "/", "/", "\"", "}">>}
    \cup {Pad(n) : n \in (RAW_RESPONSE_LIMIT - 1)..(RAW_RESPONSE_LIMIT + 1)}

Replies == JsonReplies \cup OtherReplies

\* json.loads(clean_json): the decoded value, or a JSONDecodeError
json_loads(clean_json) ==
    IF \E d \in Docs : DocText[d] = clean_json
    THEN [ok |-> TRUE, value |-> CHOOSE d \in Docs : DocText[d] = clean_json]
    ELSE [ok |-> FALSE, error |-> "JSONDecodeError"]

(* ------------------------------ reports -------------------------------- *)
\* dict.get on a dict the program built itself
EnvGet(d, key, default) == IF key \in DOMAIN d THEN d[key] ELSE default

\* truth value of a decoded JSON value
Truthy(v) ==
    CASE v.t = "None" -> FALSE
      [] v.t = "arr" -> Len(v.items) > 0
      [] v.t = "obj" -> DOMAIN v.f # {}
      [] v.t = "num" -> v.n # 0
      [] v.t = "dec" -> v.milli # 0
      [] v.t = "str" -> Len(v.s) > 0

RECURSIVE Flatten(_)
\* concatenation of a sequence of sequences
Flatten(ss) == IF Len(ss) = 0 THEN <<>> ELSE ss[1] \o Flatten(Tail(ss))

TaskLines(tasks) ==
    Flatten([i \in 1..Len(tasks) |->
        IF EnvGet(tasks[i], "status", "") = "created"
        THEN << <<"task", i, "ok", EnvGet(tasks[i], "title", "untitled")>>,
                <<"yougile_id", EnvGet(tasks[i], "yougile_id", None)>> >>
        ELSE << <<"task", i, "fail", EnvGet(tasks[i], "title", "untitled")>>,
                <<"error", EnvGet(tasks[i], "error", "unspecified")>> >>])

TASKS_HEADER == <<"TASKS_HEADER">>

\* format_analysis_report without the "if tasks" guard
format_analysis_report_AlwaysHeader(data) ==
    LET tasks == EnvGet(data, "tasks", <<>>)
    IN  << <<"BANNER_ANALYSIS">>,
           <<"status", "upper", EnvGet(data, "status", "undefined")>>,
           <<"tasks_created", EnvGet(data, "tasks_created", 0)>>,
           <<"tasks_failed", EnvGet(data, "tasks_failed", 0)>> >>
        \o <<TASKS_HEADER>> \o TaskLines(tasks)
        \o << <<"FOOTER">> >>

format_analysis_report(data) ==
    LET tasks == EnvGet(data, "tasks", <<>>)
    IN  << <<"BANNER_ANALYSIS">>,
           <<"status", "upper", EnvGet(data, "status", "undefined")>>,
           <<"tasks_created", EnvGet(data, "tasks_created", 0)>>,
           <<"tasks_failed", EnvGet(data, "tasks_failed", 0)>> >>
        \o (IF Len(tasks) > 0 THEN <<TASKS_HEADER>> \o TaskLines(tasks) ELSE <<>>)
        \o << <<"FOOTER">> >>

\* json.dumps(data, ensure_ascii=False, indent=2)
json_dumps_indent2(data) == <<"json_indent2", data>>

format_governance_report(data) ==
    << <<"BANNER_GOVERNANCE">>, <<"check_status_done">>, json_dumps_indent2(data),
       <<"FOOTER">> >>

format_calendar_report(data) ==
    << <<"BANNER_CALENDAR">>, <<"status_done">>, json_dumps_indent2(data),
       <<"FOOTER">> >>

\* a list-valued field, [] when absent
Items(d, key) == Get(d, key, Arr(<<>>)).items

Section(title, d, key, fields) ==
    IF Truthy(Get(d, key, Arr(<<>>)))
    THEN << <<title>> >> \o
         [i \in 1..Len(Items(d, key)) |->
            <<i, [j \in 1..Len(fields) |-> Get(Items(d, key)[i], fields[j], None)]>>]
    ELSE <<>>

\* a JSON number in thousandths
Milli(v) == IF v.t = "num" THEN 1000 * v.n ELSE v.milli

\* int(a / b): the quotient cut towards zero
TruncDiv(a, b) == IF a >= 0 THEN a \div b ELSE -((-a) \div b)

\* int((member.get('load_ratio', 1) - 1) * 100), in exact decimal arithmetic
OverloadPercent(member) ==
    TruncDiv(Milli(Get(member, "load_ratio", Num(1))) - 1000, 10)

\* the block of the overloaded members
OverloadedSection(workload) ==
    IF Truthy(Get(workload, "overloaded_members", None))
    THEN << <<"OVERLOADED">> >> \o
         Flatten([i \in 1..Len(Items(workload, "overloaded_members")) |->
            LET member == Items(workload, "overloaded_members")[i]
            IN  << <<"member", Get(member, "member", None), Get(member, "role", None)>>,
                   <<"load", Get(member, "current_load_sp", None),
                     Get(member, "recommended_load_sp", None)>>,
                   <<"overload", OverloadPercent(member)>> >>])
    ELSE <<>>

format_sprint_report(data) ==
    LET summary == Get(data, "executive_summary", Obj(EmptyMap))
        flow == Get(data, "flow_metrics", Obj(EmptyMap))
        team == Get(data, "team_performance", Obj(EmptyMap))
        actions == Get(data, "actionable_recommendations", Obj(EmptyMap))
        burn_down == Get(flow, "burn_down", Obj(EmptyMap))
        cumulative == Get(flow, "cumulative_flow", Obj(EmptyMap))
        workload == Get(team, "workload_distribution", Obj(EmptyMap))
    IN  << <<"BANNER_SPRINT">>,
           <<"analysis_date", Get(Get(data, "analysis_metadata", Obj(EmptyMap)),
                                  "analysis_date", "unspecified")>>,
           <<"sprint_health_score", Get(summary, "sprint_health_score", "N/A")>>,
           <<"overall_status", "upper", Get(summary, "overall_status", "undefined")>>,
           <<"ACHIEVEMENTS">> >>
        \o [i \in 1..Len(Items(summary, "key_achievements")) |->
              <<"achievement", Items(summary, "key_achievements")[i]>>]
        \o << <<"CRITICAL_RISKS">> >>
        \o [i \in 1..Len(Items(summary, "critical_risks")) |->
              <<"risk", Items(summary, "critical_risks")[i]>>]
        \o << <<"METRICS">>,
              <<"planned_sp", Get(burn_down, "planned_sp", "N/A")>>,
              <<"actual_sp", Get(burn_down, "actual_sp", "N/A")>>,
              <<"remaining_sp", Get(burn_down, "remaining_sp", "N/A")>>,
              <<"completion_percentage", Get(burn_down, "completion_percentage", "N/A")>>,
              <<"current_velocity", Get(Get(team, "velocity_analysis", Obj(EmptyMap)),
                                        "current_velocity", "N/A")>>,
              <<"throughput", Get(cumulative, "throughput", "N/A")>>,
              <<"average_cycle_time", Get(Get(flow, "cycle_time_analysis", Obj(EmptyMap)),
                                          "average_cycle_time", "N/A")>>,
              <<"WORKLOAD">> >>
        \o OverloadedSection(workload)
        \o Section("UNDERUTILIZED", workload, "underutilized_members",
                   <<"member", "role", "current_load_sp">>)
        \o Section("BOTTLENECKS", cumulative, "bottlenecks",
                   <<"stage", "avg_wait_time_days", "wip_count", "evidence">>)
        \o Section("IMMEDIATE_ACTIONS", actions, "immediate_actions",
                   <<"action", "owner", "deadline", "expected_impact">>)
        \o Section("SHORT_TERM", actions, "short_term_improvements",
                   <<"improvement", "implementation_time", "impact", "rationale">>)
        \o Section("RETROSPECTIVE", data, "retrospective_topics",
                   <<"topic", "why_important", "expected_outcome">>)
        \o << <<"END_OF_REPORT">> >>

\* the renderers that raise AttributeError on a payload that is not a dict
RendererRaises(analysis_data, request_type) ==
    request_type \in {"sprint_analytics", "sprint"} /\ ~IsDict(analysis_data)

format_human_readable_report(analysis_data, request_type) ==
    IF request_type = "sprint_analytics" \/ request_type = "sprint"
    THEN format_sprint_report(analysis_data)
    ELSE IF request_type = "analysis" THEN format_analysis_report(analysis_data)
    ELSE IF request_type = "governance" THEN format_governance_report(analysis_data)
    ELSE IF request_type = "calendar_sync" THEN format_calendar_report(analysis_data)
    ELSE << json_dumps_indent2(analysis_data) >>

(* --------------------------- configuration ----------------------------- *)
\* an environment variable that is not set
UNSET == "<unset>"

\* Falsy with "value is None" in place of "not value"
Falsy_UnsetOnly(v) == v = UNSET

\* Python's "not value" for an environment value
Falsy(v) == v \in {UNSET, ""}

FullEnviron ==
    [YANDEX_API_KEY |-> "key", YANDEX_FOLDER_ID |-> "folder",
     YOUGILE_API_KEY |-> "key", YOUGILE_COLUMN_ID |-> "col"]

Environs ==
    {FullEnviron,
     [FullEnviron EXCEPT !.YOUGILE_COLUMN_ID = UNSET],
     [FullEnviron EXCEPT !.YOUGILE_COLUMN_ID = ""],
     [FullEnviron EXCEPT !.YOUGILE_API_KEY = UNSET],
     [FullEnviron EXCEPT !.YANDEX_API_KEY = UNSET],
     [FullEnviron EXCEPT !.YANDEX_FOLDER_ID = UNSET]}

NoPrompts == [k \in {} |-> ""]

\* contents of prompts.json: unreadable, or a mapping from key to template
PromptFiles ==
    {[ok |-> FALSE],
     [ok |-> TRUE, map |-> NoPrompts],
     [ok |-> TRUE, map |-> [analysis |-> "T1", governance |-> "T3",
                            sprint_analytics |-> ""]],
     [ok |-> TRUE, map |-> [analysis |-> "T1", calendar_sync |-> "T2",
                            governance |-> "T3", sprint_analytics |-> "T4"]]}

(* ------------------------------ events --------------------------------- *)
RequestTypes == {"analysis", "calendar", "governance", "sprint", "report"}
RequestTexts == {"", "t"}

\* the dicts a request may decode to: "type" and "text" are both optional
RequestDicts ==
    UNION {[D -> RequestTypes \cup RequestTexts] : D \in SUBSET {"type", "text"}}

\* every type with a text; no text or an empty one with two of the types
WellFormed(d) ==
    /\ ("type" \in DOMAIN d => d["type"] \in RequestTypes)
    /\ ("text" \in DOMAIN d => d["text"] \in RequestTexts)
    /\ (("text" \notin DOMAIN d \/ d["text"] = "") =>
           ("type" \notin DOMAIN d \/ d["type"] \in {"analysis", "sprint"}))

PyDict(d) == [dict |-> TRUE, f |-> d]
NotADict == [dict |-> FALSE]

Payloads == {PyDict(d) : d \in {x \in RequestDicts : WellFormed(x)}} \cup {NotADict}

\* a payload of each sort: a full request, an empty dict, not a dict
SomePayloads ==
    {PyDict([type |-> "analysis", text |-> "t"]), PyDict([k \in {} |-> ""]), NotADict}

Events ==
    {[kind |-> "bare", data |-> d] : d \in Payloads \ {NotADict}}
    \cup {[kind |-> k, data |-> d] : k \in {"body_json", "body_object", "str_json"},
                                    d \in SomePayloads}
    \cup {[kind |-> k, text |-> t] : k \in {"body_plain", "str_plain"}, t \in RequestTexts}
    \cup {[kind |-> "other"]}

\* handler: the event normalised to input_data
Normalise(event) ==
    CASE event.kind = "body_json" -> event.data
      [] event.kind = "body_plain" -> PyDict([text |-> event.text])
      [] event.kind = "body_object" -> event.data
      [] event.kind = "bare" -> event.data
      [] event.kind = "str_json" -> event.data
      [] event.kind = "str_plain" -> PyDict([text |-> event.text])
      [] event.kind = "other" -> PyDict([k \in {} |-> ""])

prompt_types ==
    [analysis |-> "analysis", calendar |-> "calendar_sync",
     governance |-> "governance", sprint |-> "sprint_analytics"]

\* prompt_types.get(request_type, "analysis")
PromptKey(request_type) ==
    IF request_type \in DOMAIN prompt_types THEN prompt_types[request_type] ELSE "analysis"

(* ------------------------------ state ---------------------------------- *)
VARIABLES
    environ,          \* os.environ, fixed for the life of the process
    prompts_file,     \* content of prompts.json
    PROMPTS,          \* PromptManager.PROMPTS
    file_reads,       \* times load_prompts opened prompts.json
    prompts_writes,   \* times PromptManager.PROMPTS was assigned
    invocation,       \* handler invocations started
    pc,               \* "idle", "main", "call_gpt", "create_task", "done"
    input_data,       \* handler: input_data
    request_type,     \* main: request_type
    input_text,       \* main: input_text
    prompt_key,       \* main: prompt_key
    prompt,           \* main: prompt
    gpt_response,     \* main: gpt_response
    parsed_response,  \* process_analysis_request: parsed_response
    pos,              \* <<epic, task>> index of the loops of process_analysis_request
    created_tasks,    \* process_analysis_request: created_tasks
    response,         \* what handler returned
    gpt_calls,        \* outcomes of the calls of call_yandex_gpt in this invocation
    task_calls,       \* calls of create_yougile_task in this invocation
    extractor,        \* a run of extract_json_from_markdown on a text of its own
    sprint            \* a run of format_sprint_report on a payload of its own

vars == <<environ, prompts_file, PROMPTS, file_reads, prompts_writes, invocation, pc,
          input_data, request_type, input_text, prompt_key, prompt, gpt_response, parsed_response,
          pos, created_tasks, response, gpt_calls, task_calls, extractor,
          sprint>>

NoResponse == [statusCode |-> 0, body |-> [status |-> "none"]]

\* a local variable of main that has not been assigned in this invocation
UNASSIGNED == "<unassigned>"

\* no text has been handed to the extractor on its own
NoExtraction == [pc |-> "none", input |-> <<>>, once |-> <<>>, twice |-> <<>>]

\* no payload has been handed to the sprint renderer on its own
NoRendering == [pc |-> "none", data |-> None, report |-> <<>>]

Init ==
    /\ extractor = NoExtraction
    /\ sprint = NoRendering
    /\ environ \in Environs
    /\ prompts_file \in PromptFiles
    /\ PROMPTS = NoPrompts
    /\ file_reads = 0
    /\ prompts_writes = 0
    /\ invocation = 0
    /\ pc = "idle"
    /\ input_data = NotADict
    /\ request_type = UNASSIGNED
    /\ input_text = UNASSIGNED
    /\ prompt_key = UNASSIGNED
    /\ prompt = UNASSIGNED
    /\ gpt_response = <<>>
    /\ parsed_response = None
    /\ pos = <<0, 0>>
    /\ created_tasks = <<>>
    /\ response = NoResponse
    /\ gpt_calls = <<>>
    /\ task_calls = <<>>

(* ------------------------------ handler -------------------------------- *)
\* main never lets an exception out: its whole body is inside try/except Exception
main_raises == FALSE

\* handler: the response built from what main returned
Respond(envelope) ==
    IF main_raises
    THEN [statusCode |-> 500, body |-> [status |-> "error", message |-> "str(e)"]]
    ELSE [statusCode |-> 200, body |-> envelope]

\* main's except branch
MainError(e) == [status |-> "error", message |-> <<"Error", e>>]

\* PromptManager.get_prompt: does it call load_prompts
NeedsLoad(prompts) == DOMAIN prompts = {}

\* PromptManager.PROMPTS after get_prompt
LoadedPrompts(prompts, file) ==
    IF NeedsLoad(prompts) /\ file.ok THEN file.map ELSE prompts

\* PromptManager.get_prompt raises when load_prompts does
GetPromptRaises(prompts, file) == NeedsLoad(prompts) /\ ~file.ok

\* cls.PROMPTS.get(prompt_type, "")
get_prompt(prompts, file, prompt_type) ==
    LET loaded == LoadedPrompts(prompts, file)
    IN  IF prompt_type \in DOMAIN loaded THEN loaded[prompt_type] ELSE ""

\* TextMissing with the check of the text left out
TextMissing_Never(text) == FALSE

\* main: not input_text
TextMissing(text) == text = ""

Finish(envelope) ==
    /\ response' = Respond(envelope)
    /\ pc' = "done"

\* handler up to its call of main: a new invocation starts
Handler(event) ==
    /\ pc \in {"idle", "done"}
    /\ invocation < MaxInvocations
    /\ invocation' = invocation + 1
    /\ input_data' = Normalise(event)
    /\ pc' = "main"
    /\ request_type' = UNASSIGNED
    /\ input_text' = UNASSIGNED
    /\ prompt_key' = UNASSIGNED
    /\ prompt' = UNASSIGNED
    /\ gpt_response' = <<>>
    /\ parsed_response' = None
    /\ pos' = <<0, 0>>
    /\ created_tasks' = <<>>
    /\ response' = NoResponse
    /\ gpt_calls' = <<>>
    /\ task_calls' = <<>>
    /\ UNCHANGED <<extractor, sprint, environ, prompts_file, PROMPTS, file_reads, prompts_writes>>

\* main up to the call of the completion API
Main ==
    LET rtype == IF "type" \in DOMAIN input_data.f THEN input_data.f["type"] ELSE "analysis"
        text == IF "text" \in DOMAIN input_data.f THEN input_data.f["text"] ELSE ""
        key == PromptKey(rtype)
    IN  /\ pc = "main"
        /\ UNCHANGED <<extractor, sprint, environ, prompts_file, invocation, input_data, gpt_response,
                       parsed_response, pos, created_tasks, gpt_calls, task_calls>>
        /\ IF ~input_data.dict
           THEN /\ Finish(MainError("AttributeError"))
                /\ UNCHANGED <<request_type, input_text, prompt_key, prompt, PROMPTS,
                               file_reads, prompts_writes>>
           ELSE /\ request_type' = rtype
                /\ input_text' = text
                /\ IF TextMissing(text)
                   THEN /\ Finish([status |-> "error", message |-> "no_request_text"])
                        /\ UNCHANGED <<prompt_key, prompt, PROMPTS, file_reads,
                                       prompts_writes>>
                   ELSE /\ prompt_key' = key
                        /\ file_reads' = file_reads + (IF NeedsLoad(PROMPTS) THEN 1 ELSE 0)
                        /\ prompts_writes' = prompts_writes
                               + (IF NeedsLoad(PROMPTS) /\ prompts_file.ok THEN 1 ELSE 0)
                        /\ PROMPTS' = LoadedPrompts(PROMPTS, prompts_file)
                        /\ IF GetPromptRaises(PROMPTS, prompts_file)
                           THEN /\ Finish(MainError("load_prompts"))
                                /\ UNCHANGED prompt
                           ELSE /\ prompt' = get_prompt(PROMPTS, prompts_file, key)
                                /\ IF get_prompt(PROMPTS, prompts_file, key) = ""
                                   THEN Finish([status |-> "error",
                                                message |-> <<"prompt_not_found", key>>])
                                   ELSE /\ pc' = "call_gpt"
                                        /\ UNCHANGED response

(* ------------------------ the analysis flow ---------------------------- *)
\* the <<epic, task>> index pairs the nested loops visit
Positions(parsed) ==
    UNION {{<<e, t>> : t \in 1..Len(TasksOf(Epics(parsed)[e]))} :
           e \in 1..Len(Epics(parsed))}

Before(p, q) == p[1] < q[1] \/ (p[1] = q[1] /\ p[2] < q[2])

\* the pairs the loops have still to visit after p
Remaining(parsed, p) == {q \in Positions(parsed) : Before(p, q)}

\* NextPos with the loops running backwards
NextPos_LastFirst(parsed, p) ==
    CHOOSE q \in Remaining(parsed, p) : \A r \in Remaining(parsed, p) : r = q \/ Before(r, q)

\* the pair the loops visit next
NextPos(parsed, p) ==
    CHOOSE q \in Remaining(parsed, p) : \A r \in Remaining(parsed, p) : r = q \/ Before(q, r)

TaskAt(parsed, p) == TasksOf(Epics(parsed)[p[1]])[p[2]]

CountStatus(tasks, status) == Cardinality({i \in 1..Len(tasks) : tasks[i].status = status})

WithReport(result) ==
    [k \in DOMAIN result \cup {"human_readable_report"} |->
        IF k = "human_readable_report"
        THEN format_human_readable_report(result, "analysis")
        ELSE result[k]]

\* process_analysis_request: the envelope when no column is configured
WarningResult(parsed) ==
    WithReport([status |-> "warning", request_type |-> "analysis",
                message |-> "analysed_not_created", gpt_analysis |-> parsed,
                tasks_created |-> 0, tasks_failed |-> 0, tasks |-> <<>>])

\* process_analysis_request: the envelope after the loops
SuccessResult(tasks, parsed) ==
    WithReport([status |-> "success", request_type |-> "analysis",
                tasks_created |-> CountStatus(tasks, "created"),
                tasks_failed |-> CountStatus(tasks, "failed"),
                tasks |-> tasks, gpt_analysis |-> parsed])

\* ParseErrorResult with the raw reply attached whole
ParseErrorResult_Untruncated(rtype, e, raw) ==
    [status |-> "error", request_type |-> rtype, message |-> <<"parse_error", e>>,
     raw_response |-> raw]

\* the except json.JSONDecodeError branch of both flows
ParseErrorResult(rtype, e, raw) ==
    [status |-> "error", request_type |-> rtype, message |-> <<"parse_error", e>>,
     raw_response |-> Prefix(raw, RAW_RESPONSE_LIMIT)]

messages ==
    [calendar_sync |-> "calendar_done", governance |-> "governance_done",
     sprint_analytics |-> "sprint_done", sprint |-> "sprint_done"]

\* messages.get(request_type, default)
CannedMessage(rtype) == IF rtype \in DOMAIN messages THEN messages[rtype] ELSE "processed"

\* process_other_request, as main sees it
process_other_request(raw, rtype) ==
    LET decoded == json_loads(extract_json_from_markdown(raw))
    IN  IF ~decoded.ok THEN ParseErrorResult(rtype, decoded.error, raw)
        ELSE IF RendererRaises(decoded.value, rtype) THEN MainError("AttributeError")
        ELSE [status |-> "success", request_type |-> rtype,
              message |-> CannedMessage(rtype), analysis |-> decoded.value,
              human_readable_report |-> format_human_readable_report(decoded.value, rtype)]

\* the request type main passes to process_other_request
RoutedType(rtype, key) == rtype

\* main: does the reply go to process_analysis_request
RoutesToAnalysis(rtype, key) == rtype = "analysis"

\* process_analysis_request up to its first call of create_yougile_task
ProcessAnalysis(raw) ==
    LET decoded == json_loads(extract_json_from_markdown(raw))
        column_id == environ.YOUGILE_COLUMN_ID
    IN  IF ~decoded.ok
        THEN /\ Finish(ParseErrorResult("analysis", decoded.error, raw))
             /\ UNCHANGED <<parsed_response, pos>>
        ELSE /\ parsed_response' = decoded.value
             /\ IF Falsy(column_id)
                THEN /\ Finish(WarningResult(decoded.value))
                     /\ UNCHANGED pos
                ELSE IF ~IsDict(decoded.value)
                THEN /\ Finish(MainError("AttributeError"))
                     /\ UNCHANGED pos
                ELSE IF Positions(decoded.value) = {}
                THEN /\ Finish(SuccessResult(<<>>, decoded.value))
                     /\ UNCHANGED pos
                ELSE /\ pos' = NextPos(decoded.value, <<0, 0>>)
                     /\ pc' = "create_task"
                     /\ UNCHANGED response

\* what call_yandex_gpt can do: raise, or return the text of the first alternative
GptOutcomes ==
    IF Falsy(environ.YANDEX_API_KEY) \/ Falsy(environ.YANDEX_FOLDER_ID)
    THEN {[raised |-> TRUE, error |-> "ValueError"]}
    ELSE {[raised |-> TRUE, error |-> e] : e \in {"HTTPError", "Timeout", "AttributeError"}}
         \cup {[raised |-> FALSE, text |-> r] : r \in Replies}

\* main from the call of the completion API to the first task-creation call
CallYandexGpt(outcome) ==
    /\ pc = "call_gpt"
    /\ gpt_calls' = Append(gpt_calls, outcome.raised)
    /\ UNCHANGED <<extractor, sprint, environ, prompts_file, PROMPTS, file_reads, prompts_writes, invocation,
                   input_data, request_type, input_text, prompt_key, prompt, created_tasks,
                   task_calls>>
    /\ IF outcome.raised
       THEN /\ Finish(MainError(outcome.error))
            /\ UNCHANGED <<gpt_response, parsed_response, pos>>
       ELSE /\ gpt_response' = outcome.text
            /\ IF RoutesToAnalysis(request_type, prompt_key)
               THEN ProcessAnalysis(outcome.text)
               ELSE /\ Finish(process_other_request(outcome.text,
                                                    RoutedType(request_type, prompt_key)))
                    /\ UNCHANGED <<parsed_response, pos>>

\* what create_yougile_task can do
TaskOutcomes ==
    IF Falsy(environ.YOUGILE_API_KEY) THEN {"ValueError"} ELSE {"ok", "HTTPError"}

\* TaskRecord with the failure branch lost: every entry is recorded as created
TaskRecord_AlwaysCreated(task, outcome, yougile_result) ==
    [task_id |-> Get(task, "task_id", None),
     yougile_id |-> Get(yougile_result, "id", None),
     title |-> Get(task, "title", None), status |-> "created"]

\* the TaskRecord appended for one task entry
TaskRecord(task, outcome, yougile_result) ==
    IF outcome = "ok"
    THEN [task_id |-> Get(task, "task_id", None),
          yougile_id |-> Get(yougile_result, "id", None),
          title |-> Get(task, "title", None), status |-> "created"]
    ELSE [task_id |-> Get(task, "task_id", None), title |-> Get(task, "title", None),
          status |-> "failed", error |-> outcome]

\* one pass of the inner loop of process_analysis_request, and after the last
\* pass the rest of process_analysis_request, main and handler
CreateYougileTask(outcome) ==
    LET task == TaskAt(parsed_response, pos)
        yougile_result == Obj([id |-> Num(Len(task_calls) + 1)])
        tasks == Append(created_tasks, TaskRecord(task, outcome, yougile_result))
    IN  /\ pc = "create_task"
        /\ task_calls' = Append(task_calls,
               [task |-> task, columnId |-> environ.YOUGILE_COLUMN_ID, outcome |-> outcome])
        /\ created_tasks' = tasks
        /\ UNCHANGED <<extractor, sprint, environ, prompts_file, PROMPTS, file_reads, prompts_writes,
                       invocation, input_data, request_type, input_text, prompt_key, prompt,
                       gpt_response, parsed_response, gpt_calls>>
        /\ IF Remaining(parsed_response, pos) = {}
           THEN /\ Finish(SuccessResult(tasks, parsed_response))
                /\ UNCHANGED pos
           ELSE /\ pos' = NextPos(parsed_response, pos)
                /\ UNCHANGED <<pc, response>>

Next ==
    \/ \E event \in Events : Handler(event)
    \/ Main
    \/ \E outcome \in GptOutcomes : CallYandexGpt(outcome)
    \/ \E outcome \in TaskOutcomes : CreateYougileTask(outcome)

Spec == Init /\ [][Next]_vars

(* ----------------------- the extractor on its own ---------------------- *)
\* the lines the texts are made of: words, blanks, fence markers bare,
\* indented, tagged and trailing, a comment and a single slash
ExtractorLines ==
    {<<>>, <<"x">>, <<" ", "x", " ">>, <<"\t", "x", "\r">>,
     FENCE, <<" ">> \o FENCE, FENCE \o <<"j">>, <<"x">> \o FENCE,
     <<"x", "/", "/", "c">>, <<"a", "/", "b">>}

ExtractorInputs == {join(ls) : ls \in UNION {[1..n -> ExtractorLines] : n \in 1..MaxLines}}

\* the handler is idle while the extractor runs on its own
HandlerIdle ==
    /\ environ = FullEnviron
    /\ prompts_file = [ok |-> FALSE]
    /\ PROMPTS = NoPrompts
    /\ file_reads = 0
    /\ prompts_writes = 0
    /\ invocation = 0
    /\ pc = "idle"
    /\ input_data = NotADict
    /\ request_type = UNASSIGNED
    /\ input_text = UNASSIGNED
    /\ prompt_key = UNASSIGNED
    /\ prompt = UNASSIGNED
    /\ gpt_response = <<>>
    /\ parsed_response = None
    /\ pos = <<0, 0>>
    /\ created_tasks = <<>>
    /\ response = NoResponse
    /\ gpt_calls = <<>>
    /\ task_calls = <<>>

handlerVars ==
    <<environ, prompts_file, PROMPTS, file_reads, prompts_writes, invocation, pc,
      input_data, request_type, input_text, prompt_key, prompt, gpt_response,
      parsed_response, pos, created_tasks, response, gpt_calls, task_calls>>

InitExtractor ==
    /\ HandlerIdle
    /\ sprint = NoRendering
    /\ extractor \in {[pc |-> "input", input |-> text, once |-> <<>>, twice |-> <<>>] :
                       text \in ExtractorInputs}

\* extract_json_from_markdown applied to the text
ExtractOnce ==
    /\ extractor.pc = "input"
    /\ extractor' = [extractor EXCEPT !.pc = "once",
                                      !.once = extract_json_from_markdown(extractor.input)]
    /\ UNCHANGED <<handlerVars, sprint>>

\* extract_json_from_markdown applied to its own output
ExtractTwice ==
    /\ extractor.pc = "once"
    /\ extractor' = [extractor EXCEPT !.pc = "twice",
                                      !.twice = extract_json_from_markdown(extractor.once)]
    /\ UNCHANGED <<handlerVars, sprint>>

NextExtractor == ExtractOnce \/ ExtractTwice

SpecExtractor == InitExtractor /\ [][NextExtractor]_vars

(* -------------------- the sprint renderer on its own ------------------- *)
\* load ratios below, at and above 1, with and without a fractional part
LoadRatios ==
    {Dec(500), Dec(745), Dec(999), Num(1), Dec(1004), Dec(1005), Dec(1250),
     Dec(1255), Dec(1259), Num(2)}

\* the overloaded members: with a load_ratio, or without the key
Members ==
    {Obj([member |-> Str(<<"m">>), role |-> Str(<<"r">>), load_ratio |-> r]) :
        r \in LoadRatios}
    \cup {Obj([member |-> Str(<<"m">>)])}

SprintPayloads ==
    {Obj([team_performance |-> Obj([workload_distribution |->
            Obj([overloaded_members |-> Arr(ms)])])]) :
        ms \in UNION {[1..n -> Members] : n \in 0..MaxMembers}}

InitSprint ==
    /\ HandlerIdle
    /\ extractor = NoExtraction
    /\ sprint \in {[pc |-> "input", data |-> d, report |-> <<>>] : d \in SprintPayloads}

\* format_sprint_report applied to the payload
RenderSprint ==
    /\ sprint.pc = "input"
    /\ sprint' = [sprint EXCEPT !.pc = "rendered",
                                !.report = format_sprint_report(sprint.data)]
    /\ UNCHANGED <<handlerVars, extractor>>

NextSprint == RenderSprint

SpecSprint == InitSprint /\ [][NextSprint]_vars

(* ------------------------------ claims --------------------------------- *)
body == response.body

\* the invocation is over and call_yandex_gpt returned a reply in it
Replied == pc = "done" /\ gpt_calls = <<FALSE>>

\* what the reply decodes to, computed from the reply itself
Decoded == json_loads(extract_json_from_markdown(gpt_response))

ColumnConfigured == environ.YOUGILE_COLUMN_ID \notin {UNSET, ""}

\* the task entries of a decoded reply, epic by epic
FlatTasks(parsed) ==
    Flatten([e \in 1..Len(Epics(parsed)) |-> TasksOf(Epics(parsed)[e])])

FailedCalls == Cardinality({i \in 1..Len(task_calls) : task_calls[i].outcome # "ok"})

\* the analysis flow ran its loops to the end on an epics/tasks structure
BatchCompleted ==
    /\ Replied
    /\ request_type = "analysis"
    /\ ColumnConfigured
    /\ Decoded.ok
    /\ IsDict(Decoded.value)

\* C1: when the reply parses and a column is configured, an epics/tasks
\* structure of N task entries of which K fail remote creation gives
\* tasks_created = N - K, tasks_failed = K and len(tasks) = N.
C1_BatchInvariant ==
    BatchCompleted =>
        LET N == Len(FlatTasks(Decoded.value))
            K == FailedCalls
        IN  /\ body.status = "success"
            /\ body.tasks_created = N - K
            /\ body.tasks_failed = K
            /\ Len(body.tasks) = N
            /\ body.tasks_created + body.tasks_failed = Len(body.tasks)

C1_Witness ==
    /\ BatchCompleted
    /\ Len(FlatTasks(Decoded.value)) >= 3
    /\ FailedCalls >= 1
    /\ FailedCalls < Len(FlatTasks(Decoded.value))
    /\ body.tasks_failed = FailedCalls

\* C2: the task-creation calls are issued in input order, once per task
\* entry, whatever the earlier outcomes: the i-th call and the i-th
\* TaskRecord belong to the i-th task entry, and at the end every entry
\* has had its call.
C2_SequentialInOrder ==
    /\ Len(task_calls) > 0 =>
          /\ IsDict(parsed_response)
          /\ Len(task_calls) <= Len(FlatTasks(parsed_response))
          /\ Len(created_tasks) = Len(task_calls)
          /\ \A i \in 1..Len(task_calls) :
                /\ task_calls[i].task = FlatTasks(parsed_response)[i]
                /\ created_tasks[i].task_id = FlatTasks(parsed_response)[i].f["task_id"]
                /\ (created_tasks[i].status = "created") = (task_calls[i].outcome = "ok")
    /\ BatchCompleted =>
          /\ Len(task_calls) = Len(FlatTasks(Decoded.value))
          /\ body.tasks = created_tasks

C2_Witness ==
    /\ BatchCompleted
    /\ Len(Epics(parsed_response)) >= 2
    /\ Len(task_calls) >= 3
    /\ task_calls[1].outcome # "ok"
    /\ task_calls[2].outcome = "ok"
    /\ body.tasks[3].task_id = FlatTasks(parsed_response)[3].f["task_id"]

KnownTypes == {"analysis", "calendar", "governance", "sprint"}

\* C3: a request of an unknown type is handled like an analysis request:
\* the envelope has request_type analysis and, unless it reports an error,
\* the tasks fields.
C3_UnknownTypeIsAnalysis ==
    (Replied /\ request_type \notin KnownTypes /\ "request_type" \in DOMAIN body) =>
        /\ body.request_type = "analysis"
        /\ (body.status # "error" => "tasks" \in DOMAIN body)

\* C4: an invocation in which call_yandex_gpt raised returns statusCode 500.
C4_GptFailureIs500 ==
    (pc = "done" /\ gpt_calls = <<TRUE>>) => response.statusCode = 500

PromptLookupEmpty ==
    /\ prompt_key # UNASSIGNED
    /\ (prompt_key \notin DOMAIN PROMPTS \/ PROMPTS[prompt_key] = "")

\* C5: with an empty text, or a prompt lookup that yields the empty string,
\* the invocation ends with an error envelope and neither call_yandex_gpt
\* nor create_yougile_task is called.
C5_NoCallWithoutTextAndPrompt ==
    (pc \notin {"idle", "main"} /\ (input_text = "" \/ PromptLookupEmpty)) =>
        /\ pc = "done"
        /\ body.status = "error"
        /\ gpt_calls = <<>>
        /\ task_calls = <<>>

C5_Witness ==
    /\ pc = "done"
    /\ input_text = "t"
    /\ PROMPTS # NoPrompts
    /\ PromptLookupEmpty
    /\ body.status = "error"
    /\ gpt_calls = <<>>

\* the analysis flow was invoked with no column configured
AnalysisWithoutColumn == Replied /\ request_type = "analysis" /\ ~ColumnConfigured

NoTasksWarning ==
    /\ body.status = "warning"
    /\ body.tasks_created = 0
    /\ body.tasks_failed = 0
    /\ body.tasks = <<>>
    /\ task_calls = <<>>

\* C6 as stated: with no column configured the analysis flow returns the
\* warning envelope for every model output.
C6_WarningForEveryOutput == AnalysisWithoutColumn => NoTasksWarning

\* C6 as amended: with no column configured the analysis flow never calls
\* create_yougile_task, and returns the warning envelope (zero created,
\* zero failed, empty tasks) for every model output that parses as JSON.
C6_WarningWhenParsed ==
    AnalysisWithoutColumn =>
        /\ task_calls = <<>>
        /\ (Decoded.ok => NoTasksWarning)
        /\ (~Decoded.ok => body.status = "error")

C6_Witness ==
    /\ AnalysisWithoutColumn
    /\ Decoded.ok
    /\ IsDict(Decoded.value)
    /\ Len(FlatTasks(Decoded.value)) >= 2
    /\ NoTasksWarning

\* C7: a reply that is not JSON after extraction gives, in both flows, an
\* error envelope with the request type, the parser's message and the first
\* min(500, len) characters of the raw reply; no task is created and
\* handler returns statusCode 200.
C7_ParseFailureRecovered ==
    (Replied /\ ~Decoded.ok) =>
        /\ body.status = "error"
        /\ body.request_type = request_type
        /\ body.message = <<"parse_error", Decoded.error>>
        /\ Len(body.raw_response) =
              (IF Len(gpt_response) < 500 THEN Len(gpt_response) ELSE 500)
        /\ \A i \in 1..Len(body.raw_response) : body.raw_response[i] = gpt_response[i]
        /\ task_calls = <<>>
        /\ response.statusCode = 200

C7_Witness ==
    /\ Replied
    /\ ~Decoded.ok
    /\ request_type = "governance"
    /\ Len(gpt_response) > 500
    /\ Len(body.raw_response) = 500

ResolvedBanner ==
    [calendar_sync |-> "BANNER_CALENDAR", governance |-> "BANNER_GOVERNANCE",
     sprint_analytics |-> "BANNER_SPRINT"]

ResolvedMessage ==
    [calendar_sync |-> "calendar_done", governance |-> "governance_done",
     sprint_analytics |-> "sprint_done"]

\* C8: a calendar, governance or sprint request whose reply parses gets the
\* resolved request type, that type's canned message and that type's
\* decorated report.
C8_ResolvedTypeReport ==
    (Replied /\ request_type \in {"calendar", "governance", "sprint"}
        /\ Decoded.ok /\ body.status = "success") =>
        LET resolved == prompt_types[request_type]
        IN  /\ body.request_type = resolved
            /\ body.message = ResolvedMessage[resolved]
            /\ body.human_readable_report[1][1] = ResolvedBanner[resolved]

\* C9: prompts.json is read at most once in the life of the process and
\* PROMPTS is written at most once.
C9_LoadedAtMostOnce == file_reads <= 1 /\ prompts_writes <= 1

\* the number of times a report has the tasks section header
HeaderCount(report) ==
    Cardinality({i \in 1..Len(report) : report[i][1] = TASKS_HEADER[1]})

\* the envelope was rendered by format_analysis_report
AnalysisRendered ==
    /\ pc = "done"
    /\ "human_readable_report" \in DOMAIN body
    /\ body.human_readable_report[1][1] = "BANNER_ANALYSIS"

\* C10 as stated: every report of the analysis renderer has the tasks
\* section header exactly once, also with no tasks.
C10_HeaderAlwaysOnce ==
    AnalysisRendered => HeaderCount(body.human_readable_report) = 1

\* C10 as amended: the report of the analysis renderer has the tasks section
\* header exactly once when the envelope's tasks list is non-empty, and not
\* at all when it is empty.
C10_HeaderIffTasks ==
    AnalysisRendered =>
        HeaderCount(body.human_readable_report) = (IF Len(body.tasks) > 0 THEN 1 ELSE 0)

C10_Witness ==
    /\ AnalysisRendered
    /\ body.status = "success"
    /\ body.tasks = <<>>
    /\ HeaderCount(body.human_readable_report) = 0

\* the text has no double-slash sequence
NoDoubleSlash(text) == ~Contains(text, <<"/", "/">>)

\* the lines of the text as they stand: the first does not start with the
\* fence marker and the last is not the fence marker
UnfencedAsWritten(text) ==
    LET lines == split(text)
    IN  /\ ~startswith(lines[1], FENCE)
        /\ lines[Len(lines)] # FENCE

\* the same of the trimmed text's lines, each trimmed
UnfencedTrimmed(text) ==
    LET lines == split(strip(text))
    IN  /\ ~startswith(strip(lines[1]), FENCE)
        /\ strip(lines[Len(lines)]) # FENCE

\* C11 as stated: for a text whose first line does not start with a
\* triple-backtick, whose last line is not exactly a triple-backtick and that
\* has no double-slash, extracting twice gives what extracting once gives.
C11_IdempotentAsWritten ==
    (extractor.pc = "twice" /\ UnfencedAsWritten(extractor.input)
        /\ NoDoubleSlash(extractor.input)) =>
        extractor.twice = extractor.once

\* C11 as amended: the same for a text whose first line, after trimming the
\* text and the line, does not start with a triple-backtick, whose last line
\* after trimming is not exactly a triple-backtick, and that has no
\* double-slash.
C11_IdempotentTrimmed ==
    (extractor.pc = "twice" /\ UnfencedTrimmed(extractor.input)
        /\ NoDoubleSlash(extractor.input)) =>
        extractor.twice = extractor.once

C11_Witness ==
    /\ extractor.pc = "twice"
    /\ UnfencedTrimmed(extractor.input)
    /\ NoDoubleSlash(extractor.input)
    /\ Len(split(extractor.input)) >= 3
    /\ Contains(extractor.input, FENCE)
    /\ extractor.once # extractor.input
    /\ extractor.twice = extractor.once

IsOverloadLine(line) == line[1] = "overload"

\* the overloaded members of the payload handed to the sprint renderer
RenderedMembers ==
    sprint.data.f["team_performance"].f["workload_distribution"].f["overloaded_members"].items

\* ten times (load_ratio - 1) * 100, which is a whole number of tenths
ExcessTenths(member) == Milli(Get(member, "load_ratio", Num(1))) - 1000

Abs(x) == IF x < 0 THEN -x ELSE x

\* C12: for each overloaded member the sprint report prints
\* (load_ratio - 1) * 100 rounded to the nearest integer: the printed value
\* is within one half of the exact one.
C12_OverloadIsRounded ==
    sprint.pc = "rendered" =>
        LET printed == SelectSeq(sprint.report, IsOverloadLine)
        IN  /\ Len(printed) = Len(RenderedMembers)
            /\ \A i \in 1..Len(printed) :
                  Abs(10 * printed[i][2] - ExcessTenths(RenderedMembers[i])) <= 5

====
